---- MODULE Spec2Model ----
(***************************************************************************)
(* Scenario impact-simulation engine of AirSense:                          *)
(*   scenario_simulator/views.py          run_simulation, status API       *)
(*   scenario_simulator/impact_engine.py  run_scenario_simulation,         *)
(*                                        calculate_time_steps,            *)
(*                                        validate_scenario_parameters     *)
(*   scenario_simulator/models.py         SimulationScenario, Result rows  *)
(*                                                                         *)
(* Datetimes are whole hours (an integer count of hours from an epoch);    *)
(* latitude and longitude are whole degrees.  One scenario row is          *)
(* modelled; requests for it are served by concurrent web workers, each    *)
(* holding its own in-memory SimulationScenario instance, and Django's     *)
(* Model.save() writes every field of that instance back to the row.       *)
(***************************************************************************)
EXTENDS Integers, Sequences, FiniteSets, TLC

\* ------------------------------------------------------------------ bounds
\* Execution requests (POST) that pass the status guard in one behaviour.
MaxRuns == 2
\* Operations (database writes and queries) that raise in one behaviour.
MaxFaults == 1
\* Longest time-step grid of the scenarios that are executed.
MaxSteps == 3
\* Hours around the duration limit that the validated scenarios cover.
MaxExcessHours == 2
\* Longest date range, in hours, of the hourly grids that are computed.
MaxSpanHours == 25
\* Longest date range, in weeks, of the daily and weekly grids.
MaxSpanWeeks == 2
\* Concentrations are multiples of 1/ConcResolution ug/m3 ...
ConcResolution == 20
\* ... from -1 ug/m3 up to MaxConcentration ug/m3.
MaxConcentration == 950
\* Calls of generate_synthetic_baseline for one scenario.
MaxCalls == 2

\* ------------------------------------------------------- program constants
HoursPerDay == 24
DurationLimitDays == 365
LatitudeLimit == 90
LongitudeLimit == 180

\* Two web workers serve requests for the scenario concurrently.
Workers == {1, 2}

\* ------------------------------------------------------------- data model
\* SimulationScenario.STATUS_CHOICES
STATUS_CHOICES == {"draft", "running", "completed", "failed"}

\* SimulationScenario.TIME_RESOLUTION_CHOICES; the CharField does not enforce
\* its choices on save, so create_scenario can store any other string too.
TIME_RESOLUTION_CHOICES == {"hourly", "daily", "weekly"}

\* Messages appended by validate_scenario_parameters.
ERR_DATES == "End date must be after start date"
ERR_DURATION == "Simulation duration cannot exceed 365 days"
ERR_LATITUDE == "Latitude must be between -90 and 90 degrees"
ERR_LONGITUDE == "Longitude must be between -180 and 180 degrees"
ERR_PARAMETERS == "At least one impact parameter must be specified"

\* str(e) of the exception a failing database operation raises.
DB_ERROR == "database is locked"

\* scenario.parameters: a mapping from key to value.  A value is numeric
\* (create_scenario stores float(value)) or, when float() fails, the string.
NumValue(n) == [isnum |-> TRUE, n |-> n]
StrValue == [isnum |-> FALSE, n |-> 0]
NoParameters == [k \in {} |-> StrValue]
NumericParameters == [k \in {"traffic_volume"} |-> NumValue(100)]
StringParameters == [k \in {"note"} |-> StrValue]
\* A value that is itself a mapping: {'weather': {'wind_speed': ..., ...}}.
MapValue == [isnum |-> FALSE, n |-> 0, ismap |-> TRUE]
WeatherParameters ==
    [k \in {"traffic_volume", "weather"} |->
        IF k = "weather" THEN MapValue ELSE NumValue(100)]

VARIABLES
    scenario,    \* the immutable input fields of the SimulationScenario row
    db,          \* persisted status, progress_percent, error_message
    rows,        \* persisted SimulationResult rows of the scenario
    pc,          \* per worker: position in run_simulation / the engine
    mem,         \* per worker: fields of its in-memory scenario instance
    time_steps,  \* per worker: local time_steps
    idx,         \* per worker: loop index i
    results,     \* per worker: local results list (timestamps of results)
    baseline,    \* per worker: which baseline_data the run uses
    exc,         \* per worker: str(e) of the exception being handled
    run,         \* per worker: number of the run it executes
    resp,        \* per worker: flash message of its last response
    runs,        \* execution requests accepted so far
    faults,      \* operations that raised so far
    validation,  \* last value returned by validate_scenario_parameters
    grid,        \* last value returned by calculate_time_steps
    aqi,         \* a concentration and what calculate_aqi_from_concentration gave
    applied,     \* a time step's factors, intensities and concentrations
    improvement, \* a time step's overall AQI, baseline AQI and result fields
    synthetic    \* a location and what generate_synthetic_baseline gave

\* The variables of the pure functions of the engine, each applied to inputs
\* of its own outside a run.
calcVars == <<grid, aqi, applied, improvement, synthetic>>

vars == <<scenario, db, rows, pc, mem, time_steps, idx, results, baseline,
          exc, run, resp, runs, faults, validation, calcVars>>

\* ------------------------------------------------------- pure functions

\* timedelta(...) of calculate_time_steps, in hours.
Delta(resolution) ==
    IF resolution = "hourly" THEN 1
    ELSE IF resolution = "daily" THEN HoursPerDay
    ELSE IF resolution = "weekly" THEN 7 * HoursPerDay
    ELSE 1

RECURSIVE TimeStepsFromExclusive(_, _, _, _)
TimeStepsFromExclusive(current_time, end_date, delta, acc) ==
    IF current_time < end_date
    THEN TimeStepsFromExclusive(current_time + delta, end_date, delta,
                                Append(acc, current_time))
    ELSE acc

RECURSIVE TimeStepsFrom(_, _, _, _)
TimeStepsFrom(current_time, end_date, delta, acc) ==
    IF current_time <= end_date
    THEN TimeStepsFrom(current_time + delta, end_date, delta,
                       Append(acc, current_time))
    ELSE acc

calculate_time_steps(start_date, end_date, resolution) ==
    TimeStepsFrom(start_date, end_date, Delta(resolution), <<>>)

\* timedelta.days of (end_date - start_date): the floor of hours / 24.
DurationDays(s) == (s.end_date - s.start_date) \div HoursPerDay

ValidateErrorsFirstOnly(s) ==
    IF s.start_date >= s.end_date THEN <<ERR_DATES>>
    ELSE IF DurationDays(s) > DurationLimitDays THEN <<ERR_DURATION>>
    ELSE IF ~(-LatitudeLimit <= s.latitude /\ s.latitude <= LatitudeLimit)
         THEN <<ERR_LATITUDE>>
    ELSE IF ~(-LongitudeLimit <= s.longitude /\ s.longitude <= LongitudeLimit)
         THEN <<ERR_LONGITUDE>>
    ELSE IF DOMAIN s.parameters = {} THEN <<ERR_PARAMETERS>>
    ELSE <<>>

\* The errors list built by validate_scenario_parameters.
ValidateErrors(s) ==
    (IF s.start_date >= s.end_date THEN <<ERR_DATES>> ELSE <<>>)
    \o (IF DurationDays(s) > DurationLimitDays THEN <<ERR_DURATION>> ELSE <<>>)
    \o (IF ~(-LatitudeLimit <= s.latitude /\ s.latitude <= LatitudeLimit)
        THEN <<ERR_LATITUDE>> ELSE <<>>)
    \o (IF ~(-LongitudeLimit <= s.longitude /\ s.longitude <= LongitudeLimit)
        THEN <<ERR_LONGITUDE>> ELSE <<>>)
    \o (IF DOMAIN s.parameters = {} THEN <<ERR_PARAMETERS>> ELSE <<>>)

validate_scenario_parameters(s) ==
    [is_valid |-> Len(ValidateErrors(s)) = 0, errors |-> ValidateErrors(s)]

\* progress = int((i / total_steps) * 100); for total_steps < 30 the float
\* expression equals the exact floor of 100*i/total_steps.
Progress(i, total_steps) == (100 * i) \div total_steps

\* calculate_timestep_impact returns None when anything inside it raises:
\* `param_value > 0` in get_applicable_impact_factors raises TypeError for a
\* string-valued parameter, at every time step.
StepRaisesTypeError(s) == \E k \in DOMAIN s.parameters : ~s.parameters[k].isnum

\* ------------------------------------------------------------------ Init
NoValidation == [is_valid |-> TRUE, errors |-> <<"not called">>]

ScenarioRecords(starts, ends, resolutions, lats, lons, params) ==
    [start_date : starts, end_date : ends, time_resolution : resolutions,
     latitude : lats, longitude : lons, parameters : params]

\* Scenarios that are executed: every validation rule that a small grid can
\* violate is represented (dates in the wrong order or equal, coordinates
\* out of range, no parameters), next to valid scenarios.
RunInputs ==
    { s \in ScenarioRecords({0}, {-1, 0, MaxSteps - 1,
                                  (MaxSteps - 1) * HoursPerDay},
                            TIME_RESOLUTION_CHOICES, {0}, {0},
                            {NumericParameters})
             \cup ScenarioRecords({0}, {MaxSteps - 1}, {"hourly"},
                                  {0, LatitudeLimit + 1},
                                  {0, LongitudeLimit + 1},
                                  {NoParameters, NumericParameters,
                                   StringParameters})
             \cup ScenarioRecords({0}, {MaxSteps - 1}, {"hourly"}, {0}, {0},
                                  {WeatherParameters}) :
        Len(calculate_time_steps(s.start_date, s.end_date,
                                 s.time_resolution)) <= MaxSteps }

\* A worker that serves no request holds no instance and no locals.
NoInstance == [status |-> "draft", progress_percent |-> 0, error_message |-> ""]

InitWorkers ==
    /\ db = [status |-> "draft", progress_percent |-> 0, error_message |-> ""]
    /\ rows = {}
    /\ pc = [p \in Workers |-> "idle"]
    /\ mem = [p \in Workers |-> NoInstance]
    /\ time_steps = [p \in Workers |-> <<>>]
    /\ idx = [p \in Workers |-> 0]
    /\ results = [p \in Workers |-> <<>>]
    /\ baseline = [p \in Workers |-> "none"]
    /\ exc = [p \in Workers |-> ""]
    /\ run = [p \in Workers |-> 0]
    /\ resp = [p \in Workers |-> "none"]
    /\ runs = 0
    /\ faults = 0
    /\ validation = NoValidation

\* No pure function has been applied.
NoGrid == [computed |-> FALSE, steps |-> <<>>]
NoAqi == [computed |-> FALSE]
NoApplied == [computed |-> FALSE]
NoImprovement == [computed |-> FALSE]
NoSynthetic == [calls |-> 0]

InitCalc ==
    /\ grid = NoGrid
    /\ aqi = NoAqi
    /\ applied = NoApplied
    /\ improvement = NoImprovement
    /\ synthetic = NoSynthetic

Init ==
    /\ scenario \in RunInputs
    /\ InitWorkers
    /\ InitCalc


\* ------------------------------------------- run_simulation (views.py)

\* Model.save(): every field of the worker's instance is written to the row.
Save(p, m) == db' = m

\* get_object_or_404 loads the row; a running scenario is refused with a
\* warning and a redirect.
RejectRunning(p) ==
    /\ pc[p] = "idle"
    /\ db.status \in {"running"}
    /\ resp' = [resp EXCEPT ![p] = "already running"]
    /\ UNCHANGED <<scenario, db, rows, pc, mem, time_steps, idx, results, baseline,
                   exc, run, runs, faults, validation, calcVars>>

\* A request that is not a POST renders the confirmation page.
ShowConfirmation(p) ==
    /\ pc[p] = "idle"
    /\ db.status \notin {"running"}
    /\ resp' = [resp EXCEPT ![p] = "confirmation"]
    /\ UNCHANGED <<scenario, db, rows, pc, mem, time_steps, idx, results, baseline,
                   exc, run, runs, faults, validation, calcVars>>

\* A POST whose loaded status is not running enters the try block.
AcceptPost(p) ==
    /\ pc[p] = "idle"
    /\ db.status \notin {"running"}
    /\ runs < MaxRuns
    /\ mem' = [mem EXCEPT ![p] = db]
    /\ runs' = runs + 1
    /\ run' = [run EXCEPT ![p] = runs + 1]
    /\ pc' = [pc EXCEPT ![p] = "start"]
    /\ resp' = [resp EXCEPT ![p] = "none"]
    /\ UNCHANGED <<scenario, db, rows, time_steps, idx, results, baseline,
                   exc, faults, validation, calcVars>>

\* scenario.status = 'running'; scenario.progress_percent = 0; scenario.save()
StartRun(p) ==
    /\ pc[p] = "start"
    /\ LET m == [mem[p] EXCEPT !.status = "running", !.progress_percent = 0]
       IN  /\ mem' = [mem EXCEPT ![p] = m]
           /\ \/ /\ Save(p, m)
                 /\ pc' = [pc EXCEPT ![p] = "clear"]
                 /\ UNCHANGED <<exc, faults>>
              \/ /\ faults < MaxFaults
                 /\ faults' = faults + 1
                 /\ exc' = [exc EXCEPT ![p] = DB_ERROR]
                 /\ pc' = [pc EXCEPT ![p] = "view_except"]
                 /\ UNCHANGED db
    /\ UNCHANGED <<scenario, rows, time_steps, idx, results, baseline, run,
                   resp, runs, validation, calcVars>>

ReturnStaysInHandler(p, message) ==
    /\ resp' = [resp EXCEPT ![p] = message]
    /\ pc' = pc
    /\ mem' = [mem EXCEPT ![p] = NoInstance]
    /\ time_steps' = [time_steps EXCEPT ![p] = <<>>]
    /\ idx' = [idx EXCEPT ![p] = 0]
    /\ results' = [results EXCEPT ![p] = <<>>]
    /\ baseline' = [baseline EXCEPT ![p] = "none"]
    /\ exc' = [exc EXCEPT ![p] = ""]
    /\ run' = [run EXCEPT ![p] = 0]

\* The view redirects: the request is over, its instance and locals are gone.
Return(p, message) ==
    /\ resp' = [resp EXCEPT ![p] = message]
    /\ pc' = [pc EXCEPT ![p] = "idle"]
    /\ mem' = [mem EXCEPT ![p] = NoInstance]
    /\ time_steps' = [time_steps EXCEPT ![p] = <<>>]
    /\ idx' = [idx EXCEPT ![p] = 0]
    /\ results' = [results EXCEPT ![p] = <<>>]
    /\ baseline' = [baseline EXCEPT ![p] = "none"]
    /\ exc' = [exc EXCEPT ![p] = ""]
    /\ run' = [run EXCEPT ![p] = 0]

\* except Exception as e: in run_simulation
ViewExcept(p) ==
    /\ pc[p] = "view_except"
    /\ Save(p, [mem[p] EXCEPT !.status = "failed", !.error_message = exc[p]])
    /\ Return(p, "failed")
    /\ UNCHANGED <<scenario, rows, runs, faults, validation, calcVars>>

\* ------------------------- run_scenario_simulation (impact_engine.py)

\* The operation at the worker's position raises: control goes to the
\* except clause of run_scenario_simulation.
Raise(p) ==
    /\ faults < MaxFaults
    /\ faults' = faults + 1
    /\ exc' = [exc EXCEPT ![p] = DB_ERROR]
    /\ pc' = [pc EXCEPT ![p] = "except"]

\* scenario.result_points.all().delete()
ClearResults(p) ==
    /\ pc[p] = "clear"
    /\ \/ /\ rows' = {}
          /\ pc' = [pc EXCEPT ![p] = "baseline"]
          /\ UNCHANGED <<exc, faults>>
       \/ /\ Raise(p)
          /\ UNCHANGED rows
    /\ UNCHANGED <<scenario, db, mem, time_steps, idx, results, baseline, run,
                   resp, runs, validation, calcVars>>

\* get_baseline_data (historical averages, or None when there are no
\* readings or the query raises: its except clause logs and falls through to
\* return None), generate_synthetic_baseline on None, and
\* calculate_time_steps.
Prepare(p) ==
    /\ pc[p] = "baseline"
    /\ \E got \in {"historical", "no readings", "query raised"} :
          baseline' = [baseline EXCEPT ![p] =
                          IF got = "historical" THEN "historical"
                          ELSE IF got = "no readings" THEN "synthetic"
                          ELSE "synthetic after error"]
    /\ time_steps' = [time_steps EXCEPT ![p] =
          calculate_time_steps(scenario.start_date, scenario.end_date,
                               scenario.time_resolution)]
    /\ idx' = [idx EXCEPT ![p] = 0]
    /\ results' = [results EXCEPT ![p] = <<>>]
    /\ pc' = [pc EXCEPT ![p] = "loop"]
    /\ UNCHANGED <<scenario, db, rows, mem, exc, run, resp, runs, faults,
                   validation, calcVars>>

\* One iteration of the loop over time_steps: the progress save, then
\* calculate_timestep_impact, whose own try block turns anything raised
\* inside it (the TypeError of a string parameter, a failing ImpactFactor
\* query) into a None that the loop does not append.
LoopStep(p) ==
    /\ pc[p] = "loop"
    /\ idx[p] < Len(time_steps[p])
    /\ LET m == [mem[p] EXCEPT !.progress_percent =
                    Progress(idx[p], Len(time_steps[p]))]
       IN  /\ mem' = [mem EXCEPT ![p] = m]
           /\ \/ /\ Save(p, m)
                 /\ ~StepRaisesTypeError(scenario)
                 /\ results' = [results EXCEPT ![p] =
                                   Append(@, time_steps[p][idx[p] + 1])]
                 /\ idx' = [idx EXCEPT ![p] = @ + 1]
                 /\ UNCHANGED <<pc, exc, faults>>
              \/ /\ Save(p, m)
                 /\ StepRaisesTypeError(scenario)
                 /\ idx' = [idx EXCEPT ![p] = @ + 1]
                 /\ UNCHANGED <<pc, exc, faults, results>>
              \/ /\ Save(p, m)
                 /\ ~StepRaisesTypeError(scenario)
                 /\ faults < MaxFaults
                 /\ faults' = faults + 1
                 /\ idx' = [idx EXCEPT ![p] = @ + 1]
                 /\ UNCHANGED <<pc, exc, results>>
              \/ /\ Raise(p)
                 /\ UNCHANGED <<db, results, idx>>
    /\ UNCHANGED <<scenario, rows, time_steps, baseline, run, resp, runs,
                   validation, calcVars>>

\* SimulationResult.objects.bulk_create(results)
BulkCreate(p) ==
    /\ pc[p] = "loop"
    /\ idx[p] = Len(time_steps[p])
    /\ \/ /\ rows' = rows \cup { [timestamp |-> results[p][k], run |-> run[p]] :
                                  k \in 1..Len(results[p]) }
          /\ pc' = [pc EXCEPT ![p] = "complete"]
          /\ UNCHANGED <<exc, faults>>
       \/ /\ Raise(p)
          /\ UNCHANGED rows
    /\ UNCHANGED <<scenario, db, mem, time_steps, idx, results, baseline, run,
                   resp, runs, validation, calcVars>>

\* status = 'completed'; progress_percent = 100; completed_at; save()
Complete(p) ==
    /\ pc[p] = "complete"
    /\ LET m == [mem[p] EXCEPT !.status = "completed", !.progress_percent = 100]
       IN  \/ /\ Save(p, m)
              /\ Return(p, "completed")
              /\ UNCHANGED faults
           \/ /\ Raise(p)
              /\ mem' = [mem EXCEPT ![p] = m]
              /\ UNCHANGED <<db, resp, time_steps, idx, results, baseline,
                             run>>
    /\ UNCHANGED <<scenario, rows, runs, validation, calcVars>>

\* except Exception as e: status = 'failed'; error_message = str(e); save();
\* return False, and the view reports the failure.
Except(p) ==
    /\ pc[p] = "except"
    /\ Save(p, [mem[p] EXCEPT !.status = "failed", !.error_message = exc[p]])
    /\ Return(p, "failed")
    /\ UNCHANGED <<scenario, rows, runs, faults, validation, calcVars>>

Next ==
    \E p \in Workers :
        \/ RejectRunning(p)
        \/ ShowConfirmation(p)
        \/ AcceptPost(p)
        \/ StartRun(p)
        \/ ViewExcept(p)
        \/ ClearResults(p)
        \/ Prepare(p)
        \/ LoopStep(p)
        \/ BulkCreate(p)
        \/ Complete(p)
        \/ Except(p)

Spec == Init /\ [][Next]_vars

\* Shape of the state.
TypeOK ==
    /\ db.status \in STATUS_CHOICES
    /\ db.progress_percent \in 0..100
    /\ db.error_message \in {"", DB_ERROR}
    /\ \A r \in rows : r.run \in 1..runs
    /\ \A p \in Workers :
          /\ pc[p] \in {"idle", "start", "view_except", "clear", "baseline",
                        "loop", "complete", "except"}
          /\ mem[p].status \in STATUS_CHOICES
          /\ idx[p] \in 0..Len(time_steps[p])
          /\ Len(results[p]) <= idx[p]
    /\ runs \in 0..MaxRuns
    /\ faults \in 0..MaxFaults


\* ------------------------------------------ validation as a pure function

\* Scenarios handed to validate_scenario_parameters: durations on both
\* sides of the limit (365 days, 365 days and some hours, 366 days and
\* more), dates in either order, coordinates on and beyond their bounds.
ValidateInputs ==
    ScenarioRecords(
        {0},
        {-(HoursPerDay + 1), 0, 1, HoursPerDay}
          \cup ((DurationLimitDays * HoursPerDay - MaxExcessHours) ..
                (DurationLimitDays * HoursPerDay + MaxExcessHours))
          \cup (((DurationLimitDays + 1) * HoursPerDay - MaxExcessHours) ..
                ((DurationLimitDays + 1) * HoursPerDay + MaxExcessHours)),
        {"hourly"},
        {-(LatitudeLimit + 1), -LatitudeLimit, 0, LatitudeLimit,
         LatitudeLimit + 1},
        {-(LongitudeLimit + 1), -LongitudeLimit, 0, LongitudeLimit,
         LongitudeLimit + 1},
        {NoParameters, NumericParameters})

InitValidate ==
    /\ scenario \in ValidateInputs
    /\ InitWorkers
    /\ InitCalc

\* A caller applies validate_scenario_parameters to the scenario.
Validate ==
    /\ validation' = validate_scenario_parameters(scenario)
    /\ UNCHANGED <<scenario, db, rows, pc, mem, time_steps, idx, results,
                   baseline, exc, run, resp, runs, faults, calcVars>>

NextValidate == Validate

SpecValidate == InitValidate /\ [][NextValidate]_vars

\* ----------------------------------------------------------------- claims

\* Positions of a worker between the accepted request's first save and the
\* end of run_scenario_simulation.
Executing == {"clear", "baseline", "loop", "complete", "except"}

GridOf(s) == calculate_time_steps(s.start_date, s.end_date, s.time_resolution)

SeqToSet(q) == { q[k] : k \in 1..Len(q) }

\* C1: while a run is in progress (the persisted status is running), no
\* write to the row lowers the persisted progress_percent a poller reads.
C1_ProgressNeverDecreases ==
    [][(db.status = "running" /\ db'.status \in {"running", "completed", "failed"})
          => db'.progress_percent >= db.progress_percent]_vars

\* C2: in every persisted state progress_percent = 100 only if the status
\* is completed.
C2_FullProgressOnlyWhenCompleted ==
    db.progress_percent = 100 => db.status = "completed"

\* C3: the persisted status changes only from a non-running status to
\* running with progress_percent reset to 0, by the first save of an
\* accepted request, or from running to completed or failed.
C3_StatusTransitions ==
    [][db'.status # db.status =>
          \/ /\ db.status # "running"
             /\ db'.status = "running"
             /\ db'.progress_percent = 0
             /\ \E p \in Workers : pc[p] = "start" /\ pc'[p] = "clear"
          \/ /\ db.status = "running"
             /\ db'.status \in {"completed", "failed"}]_vars

\* C4: a run in which an exception was raised ends failed with the
\* exception's message: a run that reached the except clause, and also a run
\* one of whose time steps raised (fewer results than steps processed).
C4_ExceptionFailsRun ==
    [][\A p \in Workers :
          /\ (pc[p] = "except" /\ pc'[p] = "idle")
                => (db'.status = "failed" /\ db'.error_message = exc[p])
          /\ (pc[p] = "complete" /\ pc'[p] = "idle"
              /\ Len(results[p]) < Len(time_steps[p]))
                => (db'.status = "failed" /\ db'.error_message # "")]_vars

\* C5: whenever the persisted status is failed the scenario has no
\* persisted SimulationResult rows.
C5_FailedHasNoRows ==
    db.status = "failed" => rows = {}

\* C6: whenever the persisted status is completed, progress_percent is 100
\* and the rows are exactly one per time step of the grid.
C6_CompletedHasOneRowPerStep ==
    db.status = "completed" =>
        /\ db.progress_percent = 100
        /\ { r.timestamp : r \in rows } = SeqToSet(GridOf(scenario))
        /\ Cardinality(rows) = Len(GridOf(scenario))

\* C7: a scenario that violates a validation rule stays in draft with its
\* results untouched.
C7_InvalidNeverExecuted ==
    ~validate_scenario_parameters(scenario).is_valid =>
        (db.status = "draft" /\ rows = {})

\* C8: at most one worker executes the scenario at any time.
C8_SingleExecution ==
    Cardinality({ p \in Workers : pc[p] \in Executing }) <= 1

\* The rules of the validation contract, each with its message: dates in
\* order, whole days of duration at most 365, coordinates within bounds,
\* parameters present.
ViolatedRules(s) ==
    { m \in {ERR_DATES, ERR_DURATION, ERR_LATITUDE, ERR_LONGITUDE,
             ERR_PARAMETERS} :
        \/ m = ERR_DATES /\ ~(s.start_date < s.end_date)
        \/ m = ERR_DURATION
             /\ s.end_date - s.start_date >= (DurationLimitDays + 1) * HoursPerDay
        \/ m = ERR_LATITUDE /\ (s.latitude < -LatitudeLimit \/ s.latitude > LatitudeLimit)
        \/ m = ERR_LONGITUDE
             /\ (s.longitude < -LongitudeLimit \/ s.longitude > LongitudeLimit)
        \/ m = ERR_PARAMETERS /\ Cardinality(DOMAIN s.parameters) = 0 }

\* C9: validation returns is_valid exactly when no rule is violated, one
\* message for every violated rule and no other message, and leaves the
\* scenario as it was.
C9_ValidateReportsEveryViolation ==
    [][validation' # validation =>
          /\ scenario' = scenario
          /\ validation'.is_valid = (ViolatedRules(scenario) = {})
          /\ SeqToSet(validation'.errors) = ViolatedRules(scenario)
          /\ Len(validation'.errors) = Cardinality(ViolatedRules(scenario))]_vars

\* C9 witness: validation ran on a scenario violating several rules at once
\* and returned several messages.
C9_Witness ==
    /\ validation # NoValidation
    /\ Cardinality(ViolatedRules(scenario)) >= 3
    /\ Len(validation.errors) >= 3

\* C10: every scenario whose end_date - start_date exceeds 365 days fails
\* validation with exactly one message about the duration limit.
C10_DurationOverLimitRejected ==
    (validation # NoValidation
     /\ scenario.end_date - scenario.start_date > DurationLimitDays * HoursPerDay)
        => /\ ~validation.is_valid
           /\ Cardinality({ k \in 1..Len(validation.errors) :
                              validation.errors[k] = ERR_DURATION }) = 1


\* ------------------------------------- calculate_time_steps on its own

\* Date ranges handed to calculate_time_steps: every whole number of hours
\* up to MaxSpanHours (a full day, 24 hours, among them), whole days and
\* weeks and ranges an hour short of and an hour beyond them, and ranges
\* whose end precedes the start.
GridSpans ==
    (-2 .. MaxSpanHours)
    \cup { d * HoursPerDay + e : d \in 1..(7 * MaxSpanWeeks), e \in {-1, 0, 1} }

GridInputs ==
    { s \in ScenarioRecords({0, 7}, { b + e : b \in {0, 7}, e \in GridSpans },
                            TIME_RESOLUTION_CHOICES \cup {"monthly"}, {0}, {0},
                            {NumericParameters}) :
        /\ s.end_date - s.start_date \in GridSpans
        /\ (s.time_resolution \in {"hourly", "monthly"}
               => s.end_date - s.start_date <= MaxSpanHours) }

InitGrid ==
    /\ scenario \in GridInputs
    /\ InitWorkers
    /\ grid = NoGrid
    /\ aqi = NoAqi
    /\ applied = NoApplied
    /\ improvement = NoImprovement
    /\ synthetic = NoSynthetic

\* run_scenario_simulation's call of calculate_time_steps.
ComputeGrid ==
    /\ grid' = [computed |-> TRUE,
                steps |-> calculate_time_steps(scenario.start_date,
                                               scenario.end_date,
                                               scenario.time_resolution)]
    /\ UNCHANGED <<scenario, db, rows, pc, mem, time_steps, idx, results,
                   baseline, exc, run, resp, runs, faults, validation,
                   aqi, applied, improvement, synthetic>>

NextGrid == ComputeGrid

SpecGrid == InitGrid /\ [][NextGrid]_vars

\* The step of a resolution, as the data model states it: an hour, a day,
\* a week.
StepHours(resolution) ==
    CASE resolution = "hourly" -> 1
      [] resolution = "daily" -> 24
      [] resolution = "weekly" -> 168

\* C11: for start_date <= end_date and an hourly, daily or weekly
\* resolution, the grid is start_date + k*delta for k = 0 ..
\* floor((end_date - start_date) / delta): it begins at start_date, is
\* strictly increasing, never exceeds end_date, and contains end_date when
\* the range is a multiple of delta; 24 hours hourly gives 25 steps.
C11_GridIsArithmetic ==
    (/\ grid.computed
     /\ scenario.start_date <= scenario.end_date
     /\ scenario.time_resolution \in TIME_RESOLUTION_CHOICES)
      => LET d == StepHours(scenario.time_resolution)
             span == scenario.end_date - scenario.start_date
             n == (span \div d) + 1
         IN  /\ Len(grid.steps) = n
             /\ \A k \in 1..n : grid.steps[k] = scenario.start_date + (k - 1) * d
             /\ grid.steps[1] = scenario.start_date
             /\ \A k \in 1..(n - 1) : grid.steps[k] < grid.steps[k + 1]
             /\ grid.steps[n] <= scenario.end_date
             /\ (span % d = 0 => grid.steps[n] = scenario.end_date)
             /\ ((d = 1 /\ span = 24) => n = 25)

\* C11 witness: the hourly grid of a 24-hour range was computed and has 25
\* steps.
C11_Witness ==
    /\ grid.computed
    /\ scenario.time_resolution = "hourly"
    /\ scenario.end_date - scenario.start_date = 24
    /\ Len(grid.steps) = 25


\* ------------------------------------ calculate_aqi_from_concentration

\* Concentrations are k / ConcResolution; an AQI is the exact fraction n / d
\* (d > 0) of the expression the code evaluates in floating point.
Frac(n, d) == [n |-> n, d |-> d]

FracLE(a, b) ==
    \/ a.n \div a.d < b.n \div b.d
    \/ /\ a.n \div a.d = b.n \div b.d
       /\ (a.n % a.d) * b.d <= (b.n % b.d) * a.d

FracEq(a, b) == FracLE(a, b) /\ FracLE(b, a)

FracMin(a, b) == IF FracLE(a, b) THEN a ELSE b

FracMax(a, b) == IF FracLE(a, b) THEN b ELSE a

POLLUTANTS == {"pm25", "pm10", "no2", "so2", "co", "o3"}

\* I_lo + ((I_hi - I_lo) / (C_hi - C_lo)) * (concentration - C_lo), with the
\* breakpoints C_lo, C_hi given in tenths of ug/m3.
Segment(k, c_lo, c_hi, i_lo, i_hi) ==
    Frac(i_lo * ConcResolution * (c_hi - c_lo)
           + (i_hi - i_lo) * (10 * k - ConcResolution * c_lo),
         ConcResolution * (c_hi - c_lo))

\* concentration <= c, c in tenths of ug/m3
AtMost(k, c) == 10 * k <= ConcResolution * c

\* The four expressions of the pm25 branch and the three of the pm10 branch.
Pm25Segments(k) ==
    << Segment(k, 0, 120, 0, 50),
       Segment(k, 121, 354, 50, 100),
       Segment(k, 355, 554, 100, 150),
       Segment(k, 555, 1504, 150, 200) >>

Pm10Segments(k) ==
    << Segment(k, 0, 540, 0, 50),
       Segment(k, 550, 1540, 50, 100),
       Segment(k, 1550, 2540, 100, 150) >>

\* The concentrations (tenths) at which each branch switches expression.
Pm25Switches == <<120, 354, 554>>
Pm10Switches == <<540, 1540>>

Pm25AqiUnclamped(k) ==
    IF AtMost(k, Pm25Switches[1]) THEN Pm25Segments(k)[1]
    ELSE IF AtMost(k, Pm25Switches[2]) THEN Pm25Segments(k)[2]
    ELSE IF AtMost(k, Pm25Switches[3]) THEN Pm25Segments(k)[3]
    ELSE Pm25Segments(k)[4]

Pm25Aqi(k) ==
    IF AtMost(k, Pm25Switches[1]) THEN Pm25Segments(k)[1]
    ELSE IF AtMost(k, Pm25Switches[2]) THEN Pm25Segments(k)[2]
    ELSE IF AtMost(k, Pm25Switches[3]) THEN Pm25Segments(k)[3]
    ELSE FracMin(Frac(500, 1), Pm25Segments(k)[4])

Pm10Aqi(k) ==
    IF AtMost(k, Pm10Switches[1]) THEN Pm10Segments(k)[1]
    ELSE IF AtMost(k, Pm10Switches[2]) THEN Pm10Segments(k)[2]
    ELSE FracMin(Frac(500, 1), Pm10Segments(k)[3])

\* min(500, max(0, concentration * 2))
GenericAqi(k) ==
    FracMin(Frac(500, 1), FracMax(Frac(0, 1), Frac(2 * k, ConcResolution)))

calculate_aqi_from_concentration(k, pollutant_type) ==
    IF pollutant_type = "pm25" THEN Pm25Aqi(k)
    ELSE IF pollutant_type = "pm10" THEN Pm10Aqi(k)
    ELSE GenericAqi(k)

ConcPoints == (-ConcResolution) .. (MaxConcentration * ConcResolution)

InitAqi ==
    /\ scenario \in ScenarioRecords({0}, {1}, {"hourly"}, {0}, {0},
                                    {NumericParameters})
    /\ InitWorkers
    /\ grid = NoGrid
    /\ aqi \in [computed : {FALSE}, pollutant : POLLUTANTS, k : ConcPoints]
    /\ applied = NoApplied
    /\ improvement = NoImprovement
    /\ synthetic = NoSynthetic

\* calculate_timestep_impact converts a concentration of a pollutant.
ConvertAqi ==
    /\ ~aqi.computed
    /\ aqi' = [computed |-> TRUE, pollutant |-> aqi.pollutant, k |-> aqi.k,
               value |-> calculate_aqi_from_concentration(aqi.k, aqi.pollutant)]
    /\ UNCHANGED <<scenario, db, rows, pc, mem, time_steps, idx, results,
                   baseline, exc, run, resp, runs, faults, validation,
                   grid, applied, improvement, synthetic>>

\* It then converts the next higher concentration of the same pollutant.
ConvertHigher ==
    /\ aqi.computed
    /\ aqi.k + 1 \in ConcPoints
    /\ aqi' = [computed |-> TRUE, pollutant |-> aqi.pollutant, k |-> aqi.k + 1,
               value |-> calculate_aqi_from_concentration(aqi.k + 1,
                                                          aqi.pollutant)]
    /\ UNCHANGED <<scenario, db, rows, pc, mem, time_steps, idx, results,
                   baseline, exc, run, resp, runs, faults, validation,
                   grid, applied, improvement, synthetic>>

NextAqi == ConvertAqi \/ ConvertHigher

SpecAqi == InitAqi /\ [][NextAqi]_vars

\* C12: for a fixed pollutant the AQI does not decrease when the
\* concentration increases.
C12_AqiMonotone ==
    [][(aqi.computed /\ aqi'.computed /\ aqi'.pollutant = aqi.pollutant
        /\ aqi'.k >= aqi.k) => FracLE(aqi.value, aqi'.value)]_vars

\* C13: for every pollutant and every concentration >= 0 the AQI is in
\* [0, 500].
C13_AqiWithinBounds ==
    (aqi.computed /\ aqi.k >= 0)
       => (FracLE(Frac(0, 1), aqi.value) /\ FracLE(aqi.value, Frac(500, 1)))

\* C13 witness: a pm25 concentration whose segment expression exceeds 500
\* was converted, and the result is 500.
C13_Witness ==
    /\ aqi.computed
    /\ aqi.pollutant = "pm25"
    /\ ~FracLE(Pm25Segments(aqi.k)[4], Frac(500, 1))
    /\ FracEq(aqi.value, Frac(500, 1))

\* The top breakpoint of each table, in tenths of ug/m3: 150.4 for pm25,
\* 254 for pm10, and for the generic rule the concentration 250 at which
\* concentration * 2 reaches the top of the scale.
TopBreakpoint(pollutant_type) ==
    IF pollutant_type = "pm25" THEN 1504
    ELSE IF pollutant_type = "pm10" THEN 2540
    ELSE 2500

\* C14: every concentration above the top breakpoint yields 500 and every
\* negative concentration yields 0.
C14_AqiClamps ==
    aqi.computed =>
       /\ ~AtMost(aqi.k, TopBreakpoint(aqi.pollutant))
             => FracEq(aqi.value, Frac(500, 1))
       /\ aqi.k < 0 => FracEq(aqi.value, Frac(0, 1))

\* C15: at every concentration where the pm25 or pm10 branch switches from
\* one segment to the next, the expressions of the two segments agree.
C15_SegmentsAgree ==
    aqi.computed =>
       /\ aqi.pollutant = "pm25" =>
             \A i \in 1..Len(Pm25Switches) :
                10 * aqi.k = ConcResolution * Pm25Switches[i]
                   => FracEq(Pm25Segments(aqi.k)[i], Pm25Segments(aqi.k)[i + 1])
       /\ aqi.pollutant = "pm10" =>
             \A i \in 1..Len(Pm10Switches) :
                10 * aqi.k = ConcResolution * Pm10Switches[i]
                   => FracEq(Pm10Segments(aqi.k)[i], Pm10Segments(aqi.k)[i + 1])


\* ------------------------------------------------------ character strings

\* A name is held as a string and compared through its characters.
UPPER == <<"A", "B", "C", "D", "E", "F", "G", "H", "I", "J", "K", "L", "M",
           "N", "O", "P", "Q", "R", "S", "T", "U", "V", "W", "X", "Y", "Z">>
LOWER == <<"a", "b", "c", "d", "e", "f", "g", "h", "i", "j", "k", "l", "m",
           "n", "o", "p", "q", "r", "s", "t", "u", "v", "w", "x", "y", "z">>

LowerChar(c) ==
    IF \E i \in 1..Len(UPPER) : UPPER[i] = c
    THEN LOWER[CHOOSE i \in 1..Len(UPPER) : UPPER[i] = c]
    ELSE c

\* str.lower()
Lower(str) == [i \in 1..Len(str) |-> LowerChar(str[i])]

\* str.replace(from, to) for single characters
Replace(str, from, to) ==
    [i \in 1..Len(str) |-> IF str[i] = from THEN to ELSE str[i]]

\* needle in hay
Contains(needle, hay) ==
    \E i \in 0..(Len(hay) - Len(needle)) :
        SubSeq(hay, i + 1, i + Len(needle)) = needle

\* field__icontains=value
IContains(field, value) == Contains(Lower(value), Lower(field))

\* The characters of the parameter and factor names in use.
Chars(name) ==
    CASE name = "note" ->
         <<"n", "o", "t", "e">>
    [] name = "traffic" ->
         <<"t", "r", "a", "f", "f", "i", "c">>
    [] name = "traffic_volume" ->
         <<"t", "r", "a", "f", "f", "i", "c", "_", "v", "o", "l", "u", "m", "e">>
    [] name = "industrial_output" ->
         <<"i", "n", "d", "u", "s", "t", "r", "i", "a", "l", "_", "o", "u", "t", "p", "u", "t">>
    [] name = "fire" ->
         <<"f", "i", "r", "e">>
    [] name = "Traffic Volume" ->
         <<"T", "r", "a", "f", "f", "i", "c", " ", "V", "o", "l", "u", "m", "e">>
    [] name = "Peak traffic_volume" ->
         <<"P", "e", "a", "k", " ", "t", "r", "a", "f", "f", "i", "c", "_", "v", "o", "l", "u", "m", "e">>
    [] name = "Industrial_Output" ->
         <<"I", "n", "d", "u", "s", "t", "r", "i", "a", "l", "_", "O", "u", "t", "p", "u", "t">>
    [] name = "Wildfire" ->
         <<"W", "i", "l", "d", "f", "i", "r", "e">>

\* ------------------------------------------------ exact fraction arithmetic
RECURSIVE Gcd(_, _)
Gcd(a, b) == IF b = 0 THEN a ELSE Gcd(b, a % b)

FracNorm(f) ==
    LET g == Gcd(IF f.n < 0 THEN -f.n ELSE f.n, f.d)
    IN  Frac(f.n \div g, f.d \div g)

\* The product, with common factors removed before multiplying.
FracMul(a, b) ==
    LET g1 == Gcd(IF a.n < 0 THEN -a.n ELSE a.n, b.d)
        g2 == Gcd(IF b.n < 0 THEN -b.n ELSE b.n, a.d)
    IN  FracNorm(Frac((a.n \div g1) * (b.n \div g2),
                      (a.d \div g2) * (b.d \div g1)))

FracAdd(a, b) == FracNorm(Frac(a.n * b.d + b.n * a.d, a.d * b.d))

FracSub(a, b) == FracAdd(a, Frac(-b.n, b.d))


\* ------------------------------------------------- impact factors of a step
One == Frac(1, 1)

SCENARIO_TYPES ==
    {"wildfire", "traffic", "industrial", "weather", "policy", "seasonal",
     "custom"}

FACTOR_TYPES ==
    {"emission_source", "weather_pattern", "transportation", "industrial",
     "natural", "policy"}

\* The six coefficient fields of a factor; each defaults to 1.0.
Coefficients(pm25) ==
    [p \in POLLUTANTS |-> IF p = "pm25" THEN pm25 ELSE One]

\* Rows the ImpactFactor table may hold, by primary key.
FactorPool ==
    << [name |-> "Traffic Volume", factor_type |-> "transportation",
        coefficients |-> Coefficients(Frac(3, 2)), seasonal_factor |-> One,
        is_active |-> TRUE],
       [name |-> "Peak traffic_volume", factor_type |-> "transportation",
        coefficients |-> Coefficients(Frac(3, 2)), seasonal_factor |-> One,
        is_active |-> TRUE],
       [name |-> "Industrial_Output", factor_type |-> "industrial",
        coefficients |-> Coefficients(One), seasonal_factor |-> One,
        is_active |-> TRUE],
       [name |-> "Wildfire", factor_type |-> "natural",
        coefficients |-> Coefficients(Frac(2, 1)),
        seasonal_factor |-> Frac(3, 2), is_active |-> TRUE],
       [name |-> "Industrial_Output", factor_type |-> "industrial",
        coefficients |-> Coefficients(Frac(2, 1)), seasonal_factor |-> One,
        is_active |-> FALSE] >>

FactorKeys == [pk \in 1..Len(FactorPool) |-> pk]

\* The keys of scenario.parameters in iteration order.
ParameterOrder ==
    <<"traffic_volume", "traffic", "industrial_output", "fire", "note">>

ParameterNames(s) ==
    SelectSeq(ParameterOrder, LAMBDA name : name \in DOMAIN s.parameters)

\* ImpactFactor.objects.filter(name__icontains=param_name, is_active=True)
FactorsNamed(table, param_name) ==
    SelectSeq(FactorKeys,
              LAMBDA pk : /\ pk \in table
                          /\ FactorPool[pk].is_active
                          /\ IContains(Chars(FactorPool[pk].name),
                                       Chars(param_name)))

\* ImpactFactor.objects.filter(factor_type=scenario_type, is_active=True)
FactorsOfType(table, scenario_type) ==
    SelectSeq(FactorKeys,
              LAMBDA pk : /\ pk \in table
                          /\ FactorPool[pk].is_active
                          /\ FactorPool[pk].factor_type = scenario_type)

RECURSIVE FactorsByParameters(_, _, _)
FactorsByParameters(s, table, names) ==
    IF names = <<>> THEN <<>>
    ELSE (IF s.parameters[Head(names)].n > 0
          THEN FactorsNamed(table, Head(names))
          ELSE <<>>)
         \o FactorsByParameters(s, table, Tail(names))

get_applicable_impact_factors(s, table) ==
    FactorsByParameters(s, table, ParameterNames(s))
    \o (IF s.template # "none"
        THEN FactorsOfType(table, s.template)
        ELSE <<>>)

\* The intensity taken from the first parameter whose name contains the
\* factor's name, else the default 0.5.
BaseIntensity(s, factor) ==
    LET factor_name_lower == Replace(Lower(Chars(factor.name)), " ", "_")
        named == SelectSeq(ParameterNames(s),
                    LAMBDA name : Contains(factor_name_lower,
                                           Lower(Chars(name))))
    IN  IF named # <<>> /\ s.parameters[Head(named)].isnum
        THEN FracMax(Frac(0, 1),
                     FracMin(One,
                             FracNorm(Frac(s.parameters[Head(named)].n, 100))))
        ELSE Frac(1, 2)

get_factor_intensity(s, factor, timestamp) ==
    LET base_intensity == BaseIntensity(s, factor)
        varied ==
            IF factor.factor_type = "transportation"
            THEN IF timestamp.hour \in {7, 8, 9, 17, 18, 19}
                 THEN FracMul(base_intensity, Frac(13, 10))
                 ELSE IF timestamp.weekday >= 5
                      THEN FracMul(base_intensity, Frac(7, 10))
                      ELSE base_intensity
            ELSE IF factor.factor_type = "industrial"
            THEN IF timestamp.hour < 6 \/ timestamp.hour > 22
                 THEN FracMul(base_intensity, Frac(6, 10))
                 ELSE IF timestamp.weekday >= 5
                      THEN FracMul(base_intensity, Frac(5, 10))
                      ELSE base_intensity
            ELSE IF /\ factor.factor_type = "natural"
                    /\ Contains(Chars("fire"), Lower(Chars(factor.name)))
            THEN IF timestamp.month \in {6, 7, 8, 9}
                 THEN FracMul(base_intensity, factor.seasonal_factor)
                 ELSE FracMul(base_intensity, Frac(3, 10))
            ELSE base_intensity
    IN  FracMin(One, varied)

MultiplierScaled(coefficient, intensity) == FracMul(coefficient, intensity)

\* 1 + (coefficient - 1) * intensity
Multiplier(coefficient, intensity) ==
    FracAdd(One, FracMul(FracSub(coefficient, One), intensity))

RECURSIVE ApplyFactors(_, _, _, _)
ApplyFactors(concentrations, factors, s, timestamp) ==
    IF factors = <<>> THEN concentrations
    ELSE LET factor == FactorPool[Head(factors)]
             intensity == get_factor_intensity(s, factor, timestamp)
         IN  ApplyFactors(
                [p \in POLLUTANTS |->
                    FracMul(concentrations[p],
                            Multiplier(factor.coefficients[p], intensity))],
                Tail(factors), s, timestamp)

\* The concentrations of the typical-conditions table.
DefaultConcentrations ==
    [p \in POLLUTANTS |->
        CASE p = "pm25" -> Frac(25, 1) [] p = "pm10" -> Frac(45, 1)
          [] p = "no2" -> Frac(30, 1)  [] p = "so2" -> Frac(10, 1)
          [] p = "co" -> Frac(2, 1)    [] p = "o3" -> Frac(80, 1)]

FactorParameters ==
    { StringParameters }
    \cup { q \in [{"traffic_volume", "traffic", "industrial_output", "fire"}
                     -> {NumValue(-1), NumValue(0), NumValue(40),
                         NumValue(100), NumValue(150)}] :
              /\ q["traffic_volume"].n \in {-1, 100}
              /\ q["fire"].n \in {-1, 100}
              /\ q["traffic"].n \in {-1, 100}
              /\ q["traffic"].n = 100
                    => (q["traffic_volume"].n = 100 /\ q["fire"].n = -1) }

\* A parameter of value -1 stands for a parameter the scenario does not have.
PresentParameters(q) ==
    IF q = StringParameters THEN q
    ELSE [name \in {n \in DOMAIN q : q[n].n # -1} |-> q[name]]

FactorScenarios ==
    { [start_date |-> 0, end_date |-> 1, time_resolution |-> "hourly",
       latitude |-> 0, longitude |-> 0,
       parameters |-> PresentParameters(q), template |-> t] :
         q \in FactorParameters,
         t \in {"none", "traffic", "industrial"} }

Timestamps == [hour : {3, 8, 12}, weekday : {2, 6}, month : {1, 7}]

InitFactor ==
    /\ scenario \in FactorScenarios
    /\ InitWorkers
    /\ grid = NoGrid
    /\ aqi = NoAqi
    /\ applied \in [computed : {FALSE}, table : SUBSET (1..Len(FactorPool)),
                    timestamp : Timestamps]
    /\ improvement = NoImprovement
    /\ synthetic = NoSynthetic

\* calculate_timestep_impact up to the end of its factor loop; a parameter
\* that is not a number makes the comparison param_value > 0 raise, and the
\* step returns None.
ApplyImpact ==
    /\ ~applied.computed
    /\ LET dropped == StepRaisesTypeError(scenario)
           selected == IF dropped THEN <<>>
                       ELSE get_applicable_impact_factors(scenario,
                                                          applied.table)
       IN  applied' = [computed |-> TRUE, table |-> applied.table,
                       timestamp |-> applied.timestamp,
                       dropped |-> dropped,
                       selected |-> selected,
                       before |-> DefaultConcentrations,
                       after |-> ApplyFactors(DefaultConcentrations, selected,
                                              scenario, applied.timestamp)]
    /\ UNCHANGED <<scenario, db, rows, pc, mem, time_steps, idx, results,
                   baseline, exc, run, resp, runs, faults, validation,
                   grid, aqi, improvement, synthetic>>

NextFactor == ApplyImpact

SpecFactor == InitFactor /\ [][NextFactor]_vars

TrafficVolume == CHOOSE pk \in 1..Len(FactorPool) :
                     FactorPool[pk].name = "Traffic Volume"

\* C16: with the factor "Traffic Volume" (transportation, pm25 coefficient
\* 1.5) in the table and parameters {traffic_volume: 100}, the step at 8:00
\* on a weekday selects that factor, its intensity is 1.0, and the pm25
\* concentration after the factor loop is 1.5 times the baseline.
C16_TrafficVolumeApplied ==
    (/\ applied.computed
     /\ applied.table = {TrafficVolume}
     /\ scenario.parameters = NumericParameters
     /\ applied.timestamp.hour = 8
     /\ applied.timestamp.weekday < 5)
       => /\ applied.selected = <<TrafficVolume>>
          /\ get_factor_intensity(scenario, FactorPool[TrafficVolume],
                                  applied.timestamp) = One
          /\ applied.after["pm25"]
                = FracMul(applied.before["pm25"], Frac(3, 2))

Neutral(factor) == \A p \in POLLUTANTS : factor.coefficients[p] = One

\* C19: factors whose six coefficients are all 1.0 leave the concentrations
\* of a step as they would be without them, whatever their intensity, the
\* timestamp and the number of times they were selected; a step with only
\* such factors keeps the baseline concentrations.
C19_NeutralFactorChangesNothing ==
    (applied.computed /\ ~applied.dropped) =>
       LET others == SelectSeq(applied.selected,
                               LAMBDA pk : ~Neutral(FactorPool[pk]))
       IN  /\ applied.after = ApplyFactors(applied.before, others, scenario,
                                           applied.timestamp)
           /\ others = <<>> => applied.after = applied.before

\* C19 witness: a neutral factor was selected twice, with an intensity
\* strictly between 0 and 1, and the concentrations are the baseline's.
C19_Witness ==
    /\ applied.computed
    /\ ~applied.dropped
    /\ \E i, j \in 1..Len(applied.selected) :
          /\ i # j
          /\ applied.selected[i] = applied.selected[j]
          /\ Neutral(FactorPool[applied.selected[i]])
          /\ LET x == get_factor_intensity(scenario,
                         FactorPool[applied.selected[i]], applied.timestamp)
             IN  ~FracLE(x, Frac(0, 1)) /\ ~FracLE(One, x)
    /\ applied.after = applied.before


\* ------------------------------------------- overall AQI and improvement

\* a / b for b > 0
FracDiv(a, b) == FracMul(a, Frac(b.d, b.n))

\* int(x): truncation toward zero
Trunc(f) == IF f.n >= 0 THEN f.n \div f.d ELSE -((-f.n) \div f.d)

RECURSIVE FracMaxOf(_)
FracMaxOf(values) ==
    LET v == CHOOSE x \in values : TRUE
    IN  IF values = {v} THEN v ELSE FracMax(v, FracMaxOf(values \ {v}))

\* max(d.values()) of a dictionary keyed by pollutant
Overall(d) == FracMaxOf({ d[p] : p \in DOMAIN d })

\* The baseline AQI the step uses for each pollutant: the one of the
\* baseline data, 75 for a pollutant the data lack.
BaselineAqiValues(baseline_data) ==
    [p \in POLLUTANTS |->
        IF p \in DOMAIN baseline_data THEN baseline_data[p] ELSE Frac(75, 1)]

ImprovementPercentReversed(baseline_overall_aqi, overall_aqi) ==
    FracMul(FracDiv(FracSub(overall_aqi, baseline_overall_aqi),
                    baseline_overall_aqi),
            Frac(100, 1))

\* ((baseline_overall_aqi - overall_aqi) / baseline_overall_aqi) * 100
ImprovementPercent(baseline_overall_aqi, overall_aqi) ==
    FracMul(FracDiv(FracSub(baseline_overall_aqi, overall_aqi),
                    baseline_overall_aqi),
            Frac(100, 1))

\* Concentrations of a step after all effects, in ug/m3: pm25 and o3 vary,
\* the other pollutants are at 0.
StepConcentrations ==
    { [p \in POLLUTANTS |->
          IF p = "pm25" THEN c * ConcResolution
          ELSE IF p = "o3" THEN o * ConcResolution ELSE 0] :
        c \in {0, 5, 12, 13, 25, 36, 50, 150, 750}, o \in {0, 25, 40, 85} }

\* Baseline data: the AQI averaged over the historical readings of each
\* pollutant that has readings.
BaselineAqiTables ==
    { [p \in present |-> level] :
        present \in {POLLUTANTS, {"pm25"}, POLLUTANTS \ {"o3"}},
        level \in {Frac(0, 1), Frac(1, 2), Frac(10, 1), Frac(50, 1),
                   Frac(75, 1), Frac(171, 2), Frac(170, 1), Frac(500, 1)} }

InitImprovement ==
    /\ scenario \in ScenarioRecords({0}, {1}, {"hourly"}, {0}, {0},
                                    {NumericParameters})
    /\ InitWorkers
    /\ grid = NoGrid
    /\ aqi = NoAqi
    /\ applied = NoApplied
    /\ improvement \in [computed : {FALSE},
                        concentrations : StepConcentrations,
                        baseline_data : BaselineAqiTables]
    /\ synthetic = NoSynthetic

\* The end of calculate_timestep_impact: the overall AQIs, the improvement
\* and the result object; the division raises for a baseline of 0 and the
\* function's except clause returns None.
StepResult ==
    /\ ~improvement.computed
    /\ LET aqi_values ==
               [p \in POLLUTANTS |->
                   calculate_aqi_from_concentration(
                       improvement.concentrations[p], p)]
           overall_aqi == Overall(aqi_values)
           baseline_overall_aqi ==
               Overall(BaselineAqiValues(improvement.baseline_data))
           raised == baseline_overall_aqi.n = 0
       IN  improvement' =
              [computed |-> TRUE,
               concentrations |-> improvement.concentrations,
               baseline_data |-> improvement.baseline_data,
               overall_aqi |-> overall_aqi,
               baseline_overall_aqi |-> baseline_overall_aqi,
               dropped |-> raised,
               result |->
                  IF raised THEN [aqi_value |-> 0, baseline_aqi |-> 0,
                                  improvement_percent |-> Frac(0, 1)]
                  ELSE [aqi_value |-> Trunc(overall_aqi),
                        baseline_aqi |-> Trunc(baseline_overall_aqi),
                        improvement_percent |->
                           ImprovementPercent(baseline_overall_aqi,
                                              overall_aqi)]]
    /\ UNCHANGED <<scenario, db, rows, pc, mem, time_steps, idx, results,
                   baseline, exc, run, resp, runs, faults, validation,
                   grid, aqi, applied, synthetic>>

NextImprovement == StepResult

SpecImprovement == InitImprovement /\ [][NextImprovement]_vars

\* C17: a step whose baseline overall AQI is 0 yields a result record; the
\* step is not dropped.
C17_ZeroBaselineKeepsResult ==
    (improvement.computed /\ improvement.baseline_overall_aqi.n = 0)
       => ~improvement.dropped

\* C18: for a baseline overall AQI > 0 the improvement is positive, negative
\* or zero as the simulated overall AQI is below, above or equal to the
\* baseline, and the stored integers aqi_value and baseline_aqi, when they
\* differ, are ordered the same way.
C18_ImprovementSign ==
    (/\ improvement.computed
     /\ ~improvement.dropped
     /\ improvement.baseline_overall_aqi.n > 0)
       => LET o == improvement.overall_aqi
              b == improvement.baseline_overall_aqi
              r == improvement.result
          IN  /\ (FracLE(o, b) /\ ~FracLE(b, o)) => r.improvement_percent.n > 0
              /\ (FracLE(b, o) /\ ~FracLE(o, b)) => r.improvement_percent.n < 0
              /\ FracEq(o, b) => r.improvement_percent.n = 0
              /\ r.aqi_value < r.baseline_aqi => r.improvement_percent.n > 0
              /\ r.aqi_value > r.baseline_aqi => r.improvement_percent.n < 0

\* C18 witness: a step whose simulated AQI is below a positive baseline, with
\* differing stored integers and a positive improvement.
C18_Witness ==
    /\ improvement.computed
    /\ ~improvement.dropped
    /\ improvement.baseline_overall_aqi.n > 0
    /\ improvement.result.aqi_value < improvement.result.baseline_aqi
    /\ improvement.result.improvement_percent.n > 0


\* ------------------------------------------- generate_synthetic_baseline
URBAN_TERMS ==
    << <<"c", "i", "t", "y">>,
       <<"d", "o", "w", "n", "t", "o", "w", "n">>,
       <<"u", "r", "b", "a", "n">>,
       <<"m", "e", "t", "r", "o">> >>

RURAL_TERMS ==
    << <<"r", "u", "r", "a", "l">>,
       <<"c", "o", "u", "n", "t", "r", "y">>,
       <<"v", "i", "l", "l", "a", "g", "e">>,
       <<"f", "a", "r", "m">> >>

\* any(term in text for term in terms)
AnyIn(terms, text) == \E i \in 1..Len(terms) : Contains(terms[i], text)

DefaultAqi ==
    [p \in POLLUTANTS |->
        CASE p = "pm25" -> Frac(75, 1) [] p = "pm10" -> Frac(70, 1)
          [] p = "no2" -> Frac(65, 1)  [] p = "so2" -> Frac(40, 1)
          [] p = "co" -> Frac(35, 1)   [] p = "o3" -> Frac(85, 1)]

\* The dictionary literal the function starts from on every call.
DefaultTable ==
    [p \in POLLUTANTS |->
        [concentration |-> DefaultConcentrations[p], aqi |-> DefaultAqi[p]]]

UrbanTable ==
    [p \in POLLUTANTS |->
        [concentration |-> FracMul(DefaultTable[p].concentration,
                                   Frac(13, 10)),
         aqi |-> FracMin(Frac(200, 1),
                         FracMul(DefaultTable[p].aqi, Frac(12, 10)))]]

RuralTable ==
    [p \in POLLUTANTS |->
        [concentration |-> FracMul(DefaultTable[p].concentration,
                                   Frac(6, 10)),
         aqi |-> FracMax(Frac(20, 1),
                         FracMul(DefaultTable[p].aqi, Frac(7, 10)))]]

GenerateRuralFirst(location) ==
    LET location_lower == Lower(location)
    IN  IF AnyIn(RURAL_TERMS, location_lower) THEN RuralTable
        ELSE IF AnyIn(URBAN_TERMS, location_lower) THEN UrbanTable
        ELSE DefaultTable

generate_synthetic_baseline(location) ==
    LET location_lower == Lower(location)
    IN  IF AnyIn(URBAN_TERMS, location_lower) THEN UrbanTable
        ELSE IF AnyIn(RURAL_TERMS, location_lower) THEN RuralTable
        ELSE DefaultTable

UpperChar(c) ==
    IF \E i \in 1..Len(LOWER) : LOWER[i] = c
    THEN UPPER[CHOOSE i \in 1..Len(LOWER) : LOWER[i] = c]
    ELSE c

Capitalised(w) ==
    [i \in 1..Len(w) |-> IF i = 1 THEN UpperChar(w[i]) ELSE w[i]]

AllCaps(w) == [i \in 1..Len(w) |-> UpperChar(w[i])]

\* Words a location is made of: the eight keywords, words that hold no
\* keyword, and words that hold one inside.
LocationWords ==
    { URBAN_TERMS[i] : i \in 1..Len(URBAN_TERMS) }
    \cup { RURAL_TERMS[i] : i \in 1..Len(RURAL_TERMS) }
    \cup { <<>>,
           <<"s", "p", "r", "i", "n", "g", "f", "i", "e", "l", "d">>,
           <<"v", "e", "l", "o", "c", "i", "t", "y">>,
           <<"f", "a", "r", "m", "i", "n", "g", "t", "o", "n">> }

Locations ==
    { a \o <<" ">> \o b : a, b \in LocationWords }
    \cup { Capitalised(a) \o <<" ">> \o Capitalised(b) :
              a, b \in LocationWords }
    \cup { AllCaps(a \o <<" ">> \o b) : a, b \in LocationWords }

BaselineScenarios ==
    { [start_date |-> 0, end_date |-> 1, time_resolution |-> "hourly",
       latitude |-> 0, longitude |-> 0, parameters |-> NumericParameters,
       location |-> l] : l \in Locations }

InitBaseline ==
    /\ scenario \in BaselineScenarios
    /\ InitWorkers
    /\ grid = NoGrid
    /\ aqi = NoAqi
    /\ applied = NoApplied
    /\ improvement = NoImprovement
    /\ synthetic = [calls |-> 0, tables |-> <<>>]

\* run_scenario_simulation falls back to the synthetic baseline.
GenerateSynthetic ==
    /\ synthetic.calls < MaxCalls
    /\ synthetic' =
          [calls |-> synthetic.calls + 1,
           tables |-> Append(synthetic.tables,
                             generate_synthetic_baseline(scenario.location))]
    /\ UNCHANGED <<scenario, db, rows, pc, mem, time_steps, idx, results,
                   baseline, exc, run, resp, runs, faults, validation,
                   grid, aqi, applied, improvement>>

NextBaseline == GenerateSynthetic

SpecBaseline == InitBaseline /\ [][NextBaseline]_vars

IsUrban(location) == AnyIn(URBAN_TERMS, Lower(location))
IsRural(location) == AnyIn(RURAL_TERMS, Lower(location))

\* C20: every call returns, for a location with an urban keyword (also next
\* to a rural one), each concentration x1.3 and each AQI min(200, AQI x1.2);
\* otherwise for a location with a rural keyword each concentration x0.6 and
\* each AQI max(20, AQI x0.7); otherwise the default table; and all calls for
\* one scenario return the same table.
C20_OneLocationAdjustment ==
    \A i \in 1..Len(synthetic.tables) :
       LET table == synthetic.tables[i]
           urban == IsUrban(scenario.location)
           rural == IsRural(scenario.location)
       IN  /\ \A p \in POLLUTANTS :
                /\ urban =>
                      /\ table[p].concentration
                            = FracMul(DefaultTable[p].concentration,
                                      Frac(13, 10))
                      /\ table[p].aqi
                            = FracMin(Frac(200, 1),
                                      FracMul(DefaultTable[p].aqi,
                                              Frac(12, 10)))
                /\ (~urban /\ rural) =>
                      /\ table[p].concentration
                            = FracMul(DefaultTable[p].concentration,
                                      Frac(6, 10))
                      /\ table[p].aqi
                            = FracMax(Frac(20, 1),
                                      FracMul(DefaultTable[p].aqi,
                                              Frac(7, 10)))
                /\ (~urban /\ ~rural) => table[p] = DefaultTable[p]
           /\ table = synthetic.tables[1]

\* C20 witness: the baseline of a location with an urban and a rural keyword
\* was generated twice, and pm25 is 32.5 with AQI 90 both times.
C20_Witness ==
    /\ synthetic.calls >= 2
    /\ IsUrban(scenario.location)
    /\ IsRural(scenario.location)
    /\ \A i \in 1..2 :
          /\ synthetic.tables[i]["pm25"].concentration = Frac(65, 2)
          /\ synthetic.tables[i]["pm25"].aqi = Frac(90, 1)


\* ------------------------------------------------- claims about the run

\* C21: a run whose historical-readings query raised ends failed with a
\* non-empty error_message and no persisted results.
C21_BaselineFailureFailsRun ==
    [][\A p \in Workers :
          (baseline[p] = "synthetic after error" /\ pc'[p] = "idle")
             => /\ db'.status = "failed"
                /\ db'.error_message # ""
                /\ rows' = {}]_vars

\* C22: when a re-run ends completed, the persisted results are records of
\* that run only, as many as its grid has steps.
C22_ResultsReplacedOnRerun ==
    [][\A p \in Workers :
          (pc[p] = "complete" /\ pc'[p] = "idle" /\ run[p] > 1
           /\ db'.status = "completed")
             => /\ \A r \in rows' : r.run = run[p]
                /\ Cardinality(rows') = Len(time_steps[p])]_vars

\* C29: in every persisted state there are result rows only if the status
\* is completed.
C29_RowsOnlyWhenCompleted ==
    rows # {} => db.status = "completed"

\* C30: in every persisted state a completed scenario has an empty
\* error_message, and error_message is non-empty only while the status is
\* failed.
C30_ErrorMessageOnlyWhenFailed ==
    /\ db.status = "completed" => db.error_message = ""
    /\ db.error_message # "" => db.status = "failed"


\* C26: in a run of a scenario whose parameters contain a 'weather' mapping,
\* every time step that is processed without a raised database operation
\* emits a result.
C26_WeatherScenarioEmitsResults ==
    [][\A p \in Workers :
          ("weather" \in DOMAIN scenario.parameters
           /\ pc[p] = "loop" /\ idx'[p] = idx[p] + 1 /\ faults' = faults)
             => Len(results'[p]) = Len(results[p]) + 1]_vars


\* ------------------------------------- claims about the factors of a step

Occurrences(q, x) == Cardinality({ i \in 1..Len(q) : q[i] = x })

\* x lies between a and b, whichever of them is larger
FracBetween(a, x, b) ==
    \/ FracLE(a, x) /\ FracLE(x, b)
    \/ FracLE(b, x) /\ FracLE(x, a)

\* C25: within a step every factor is in the applicable list at most once,
\* and when the table holds one factor each concentration after the factor
\* loop lies between the baseline and the baseline times the coefficient.
C25_FactorAppliedOnce ==
    (applied.computed /\ ~applied.dropped) =>
       /\ \A pk \in applied.table : Occurrences(applied.selected, pk) <= 1
       /\ \A pk \in applied.table :
             applied.table = {pk} =>
                \A p \in POLLUTANTS :
                   FracBetween(applied.before[p], applied.after[p],
                               FracMul(applied.before[p],
                                       FactorPool[pk].coefficients[p]))

\* C28: a factor selected through a parameter key k of positive value v gets
\* the base intensity v/100 clamped to [0, 1].
C28_SelectingParameterSetsIntensity ==
    (applied.computed /\ ~applied.dropped) =>
       \A pk \in applied.table : \A k \in DOMAIN scenario.parameters :
          (/\ FactorPool[pk].is_active
           /\ scenario.parameters[k].n > 0
           /\ IContains(Chars(FactorPool[pk].name), Chars(k))
           /\ Occurrences(applied.selected, pk) >= 1)
             => BaseIntensity(scenario, FactorPool[pk])
                   = FracMax(Frac(0, 1),
                             FracMin(One,
                                     FracNorm(Frac(scenario.parameters[k].n,
                                                   100))))


\* -------------------------------------------- get_factor_intensity alone

\* Factors of every type, with names that do and do not hold 'fire', and
\* seasonal_factor values a FloatField stores: negative, zero, positive.
IntensityFactors ==
    [name : {"Traffic Volume", "Industrial_Output", "Wildfire"},
     factor_type : FACTOR_TYPES,
     coefficients : {Coefficients(One)},
     seasonal_factor : {Frac(-1, 2), Frac(0, 1), One, Frac(3, 2)},
     is_active : {TRUE}]

IntensityScenarios ==
    { s \in FactorScenarios :
        /\ s.template = "none"
        /\ DOMAIN s.parameters \subseteq {"industrial_output", "note"} }

\* Hours on both sides of the night and rush-hour limits, a weekday and a
\* weekend day, a month inside and one outside the fire season.
IntensityTimestamps ==
    [hour : {0, 5, 6, 8, 22, 23}, weekday : {2, 6}, month : {1, 7}]

InitIntensity ==
    /\ scenario \in IntensityScenarios
    /\ InitWorkers
    /\ grid = NoGrid
    /\ aqi = NoAqi
    /\ applied \in [computed : {FALSE}, factor : IntensityFactors,
                    timestamp : IntensityTimestamps]
    /\ improvement = NoImprovement
    /\ synthetic = NoSynthetic

\* calculate_timestep_impact asks for the intensity of a factor.
ComputeIntensity ==
    /\ ~applied.computed
    /\ applied' = [computed |-> TRUE, factor |-> applied.factor,
                   timestamp |-> applied.timestamp,
                   intensity |-> get_factor_intensity(scenario, applied.factor,
                                                      applied.timestamp)]
    /\ UNCHANGED <<scenario, db, rows, pc, mem, time_steps, idx, results,
                   baseline, exc, run, resp, runs, faults, validation,
                   grid, aqi, improvement, synthetic>>

NextIntensity == ComputeIntensity

SpecIntensity == InitIntensity /\ [][NextIntensity]_vars

\* C23: the intensity of every factor, for every parameter mapping and
\* timestamp, is in [0, 1].
C23_IntensityWithinUnitInterval ==
    applied.computed =>
       (FracLE(Frac(0, 1), applied.intensity) /\ FracLE(applied.intensity, One))

\* C24: the intensity of an industrial factor is its base intensity, times
\* 0.6 at every timestamp with hour < 6 or hour > 22, times 0.5 at every
\* timestamp on a Saturday or Sunday, capped at 1.
C24_IndustrialDamping ==
    (applied.computed /\ applied.factor.factor_type = "industrial") =>
       LET night == applied.timestamp.hour < 6 \/ applied.timestamp.hour > 22
           weekend == applied.timestamp.weekday >= 5
           damped ==
              FracMul(FracMul(BaseIntensity(scenario, applied.factor),
                              IF night THEN Frac(6, 10) ELSE One),
                      IF weekend THEN Frac(5, 10) ELSE One)
       IN  applied.intensity = FracMin(One, damped)


\* ------------------------------------------------------------ termination

\* Scenarios of every resolution with an empty and a one-step date range,
\* and with an unrecognised resolution a range of MaxSteps steps.
LiveInputs ==
    ScenarioRecords({0}, {-1, 0}, TIME_RESOLUTION_CHOICES \cup {"monthly"},
                    {0}, {0}, {NumericParameters})
    \cup ScenarioRecords({0}, {MaxSteps - 1}, {"monthly"}, {0}, {0},
                         {NumericParameters})

InitLive ==
    /\ scenario \in LiveInputs
    /\ InitWorkers
    /\ InitCalc

\* The statements of a request that was accepted: the worker's thread runs
\* them one after another until the view returns.
Handle(p) ==
    \/ StartRun(p)
    \/ ViewExcept(p)
    \/ ClearResults(p)
    \/ Prepare(p)
    \/ LoopStep(p)
    \/ BulkCreate(p)
    \/ Complete(p)
    \/ Except(p)

SpecLive ==
    /\ InitLive
    /\ [][Next]_vars
    /\ \A p \in Workers : WF_vars(Handle(p))

====
